---- MODULE Spec2Model ----
(***************************************************************************)
(* A model of HTTPServer.py: a single-threaded socketserver.TCPServer      *)
(* whose HTTPRequestHandler.handle parses one request off the connection's *)
(* stream and dispatches it to handle_get / handle_post / handle_put /     *)
(* handle_delete, which act on the files below the working directory and   *)
(* write responses with send_http_response.                                *)
(*                                                                         *)
(* Byte strings are sequences over Bytes.  A request target is a pair      *)
(* <<stem, extension>> ("/foo.txt" is <<"/foo", ".txt">>), so that         *)
(* Path.suffix is computed and not looked up.  The connection's stream is  *)
(* chosen by the client piece by piece, as the handler reads it.           *)
(***************************************************************************)
EXTENDS Integers, Sequences, FiniteSets, TLC

\* ------------------------------------------------------------------------
\* Bounds of the model
\* ------------------------------------------------------------------------
\* the longest request body a client sends
MaxBody == 1
\* the most bytes the files below the working directory hold together
MaxDisk == 2
\* the most connections that wait in the listening socket's queue
MaxBacklog == 2

Bytes == {"a", "b"}

RECURSIVE SeqsUpTo(_, _)
SeqsUpTo(S, n) ==
    IF n = 0 THEN {<<>>}
    ELSE LET shorter == SeqsUpTo(S, n - 1)
         IN  shorter \cup {Append(s, x) : s \in {t \in shorter : Len(t) = n - 1}, x \in S}

\* ------------------------------------------------------------------------
\* The client's inputs
\* ------------------------------------------------------------------------
Methods == {"GET", "POST", "PUT", "DELETE", "HEAD"}

URIs == {<<"/foo", ".txt">>, <<"/new", ".bin">>, <<"/dir", "">>}

\* request lines as the token lists request_line.split(" ") yields: three
\* tokens, or a line that lacks its version token
RequestLines ==
    {<<m, u, "HTTP/1.1">> : m \in Methods, u \in URIs}
        \cup {<<"GET", <<"/foo", ".txt">>>>}

\* header lines after strip() and decode(): the text before the first colon,
\* the separator found there (": ", a bare ":", or "" when the line has no
\* colon) and the text after it
ContentLengthValues == {ToString(n) : n \in 0..MaxBody} \cup {"x", "-1"}

HeaderLines ==
    {[name |-> "Content-Length", sep |-> ": ", value |-> v] : v \in ContentLengthValues}
        \cup {[name |-> "Content-Type", sep |-> ": ", value |-> v] :
                 v \in {"text/plain", "application/json"}}
        \cup {[name |-> "Content-Language", sep |-> ": ", value |-> "en"]}
        \cup {[name |-> "Host", sep |-> ":", value |-> "h"],
              [name |-> "Garbage", sep |-> "", value |-> ""]}

\* targets with the extensions handle_get tells apart, and one it does not
ImageURIs == {<<"/pic", ".png">>, <<"/pic", ".gif">>, <<"/pic", ".jpeg">>, <<"/pic", ".jpg">>}

AllURIs == URIs \cup ImageURIs

\* what clients that only fetch files send
TypedRequestLines == {<<"GET", u, "HTTP/1.1">> : u \in AllURIs}

\* what well-behaved clients working on one file send: complete request
\* lines for that target, and the headers that describe a text/plain body
PlainRequestLines == {<<m, <<"/new", ".bin">>, "HTTP/1.1">> : m \in Methods}

PlainHeaderLines ==
    {[name |-> "Content-Length", sep |-> ": ", value |-> ToString(n)] : n \in 0..MaxBody}
        \cup {[name |-> "Content-Type", sep |-> ": ", value |-> "text/plain"]}

\* ------------------------------------------------------------------------
\* The filesystem below the working directory
\* ------------------------------------------------------------------------
\* Path("." + request_uri)
PathOf(uri) == <<"." \o uri[1], uri[2]>>

\* Path.suffix
Suffix(request_path) == request_path[2]

Paths == {PathOf(u) : u \in AllURIs}

Absent == [kind |-> "absent", data |-> <<>>]
Dir == [kind |-> "dir", data |-> <<>>]
File(data) == [kind |-> "file", data |-> data]

\* the bytes the files hold together
RECURSIVE SumOver(_, _)
SumOver(f, ps) ==
    IF ps = {} THEN 0
    ELSE LET p == CHOOSE q \in ps : TRUE
         IN  Len(f[p].data) + SumOver(f, ps \ {p})

DiskUse(f) == SumOver(f, Paths)

\* ------------------------------------------------------------------------
\* send_http_response and generate_error_body
\* ------------------------------------------------------------------------
STATUS_REASONS ==
    [c \in {200, 201, 204, 400, 404, 415, 500, 501} |->
        CASE c = 200 -> "OK"
          [] c = 201 -> "Created"
          [] c = 204 -> "No Content"
          [] c = 400 -> "Bad Request"
          [] c = 404 -> "Not Found"
          [] c = 415 -> "Unsupported Media Type"
          [] c = 500 -> "Internal Server Error"
          [] c = 501 -> "Not Implemented"]

HTTP_VERSION == "HTTP/1.1"

SUPPORTED_CONTENT_HEADERS == {"Content-Type", "Content-Length"}

\* A response on the wire is a sequence of elements: the status line and
\* each header line are tuples of their fields, <<>> is the blank line that
\* ends the headers, and every element after it is one <<byte>> of the body.
\* body = <<>> stands for both None and b"": the code tests the
\* truth value of body only.
RECURSIVE WrapBytes(_)
WrapBytes(bs) == IF bs = <<>> THEN <<>> ELSE <<<<Head(bs)>>>> \o WrapBytes(Tail(bs))

\* Serialize with a Content-Length that counts the blank line's CRLF as well
Serialize_CountsBlankLine(http_version, status_code, body, content_type) ==
    <<<<http_version, ToString(status_code), STATUS_REASONS[status_code]>>>>
        \o (IF body # <<>>
            THEN <<<<"Content-Type", ": ", content_type>>,
                   <<"Content-Length", ": ", ToString(Len(body) + 2)>>>>
            ELSE <<>>)
        \o <<<<>>>>
        \o (IF body # <<>> THEN WrapBytes(body) ELSE <<>>)

\* Serialize with the entity headers written whether or not there is a body
Serialize_AlwaysHeaders(http_version, status_code, body, content_type) ==
    <<<<http_version, ToString(status_code), STATUS_REASONS[status_code]>>,
      <<"Content-Type", ": ", content_type>>,
      <<"Content-Length", ": ", ToString(Len(body))>>,
      <<>>>>
        \o (IF body # <<>> THEN WrapBytes(body) ELSE <<>>)

Serialize(http_version, status_code, body, content_type) ==
    <<<<http_version, ToString(status_code), STATUS_REASONS[status_code]>>>>
        \o (IF body # <<>>
            THEN <<<<"Content-Type", ": ", content_type>>,
                   <<"Content-Length", ": ", ToString(Len(body))>>>>
            ELSE <<>>)
        \o <<<<>>>>
        \o (IF body # <<>> THEN WrapBytes(body) ELSE <<>>)

\* wfile.write(response): the stream after the write
send_http_response(w, http_version, status_code, body, content_type) ==
    Append(w, Serialize(http_version, status_code, body, content_type))

\* the HTML error page; each element stands for one run of ASCII bytes
generate_error_body(status_code, reason) ==
    <<"<html><body><img src=\"https://http.cat/", ToString(status_code),
      "\"><p>", reason, "</p></body></html>">>

send_error(w, status_code, reason) ==
    send_http_response(w, HTTP_VERSION, status_code,
                       generate_error_body(status_code, reason), "text/html")

\* ------------------------------------------------------------------------
\* Reading a response back off the wire (what a client does)
\* ------------------------------------------------------------------------
BlankAt(resp) == CHOOSE i \in 1..Len(resp) : resp[i] = <<>> /\ \A j \in 1..(i - 1) : resp[j] # <<>>

StatusOf(resp) == resp[1][2]

HeaderLinesOf(resp) == {resp[i] : i \in 2..(BlankAt(resp) - 1)}

HasHeader(resp, name) == \E h \in HeaderLinesOf(resp) : h[1] = name

HeaderOf(resp, name) == (CHOOSE h \in HeaderLinesOf(resp) : h[1] = name)[3]

BodyOf(resp) == [i \in 1..(Len(resp) - BlankAt(resp)) |-> resp[BlankAt(resp) + i][1]]

\* ------------------------------------------------------------------------
\* State
\* ------------------------------------------------------------------------
VARIABLES
    fs,              \* the files below the working directory: path -> Absent, Dir or File
    pc,              \* where the server is: "idle" or a position in handle
    bound,           \* the local names of handle that are bound
    request_method,
    request_uri,
    header_params,   \* the dict of request headers
    content_bytes,
    wfile,           \* the responses written to the connection, in order
    parse_failed,    \* the first try block of handle raised (history)
    ran,             \* the method handler handle called, or "none" (history)
    failed_line,     \* the header line the first try block raised on, if any (history)
    backlog,         \* the connections waiting to be accepted
    stalled,         \* the client holds the connection open and sends nothing more
    fs0,             \* fs when the connection was accepted (history)
    prev             \* the request handled before this one (history)

vars == <<fs, pc, bound, request_method, request_uri, header_params, content_bytes,
          wfile, parse_failed, failed_line, ran, backlog, stalled, fs0, prev>>

\* no header line
NoLine == [name |-> "", sep |-> "none", value |-> ""]

NoPrev == [method |-> "none", uri |-> <<"", "">>, body |-> <<>>, code |-> "",
           before |-> Absent]

\* header_params = {}
EmptyDict == [k \in {} |-> ""]

\* header_params[header_key] = header_value
DictSet(d, key, value) ==
    [k \in (DOMAIN d) \cup {key} |-> IF k = key THEN value ELSE d[k]]

\* the working directory when the server starts: one subdirectory, no files
InitFs == [p \in Paths |-> IF p = PathOf(<<"/dir", "">>) THEN Dir ELSE Absent]

Init ==
    /\ fs = InitFs
    /\ pc = "idle"
    /\ bound = {}
    /\ request_method = ""
    /\ request_uri = <<"", "">>
    /\ header_params = EmptyDict
    /\ content_bytes = <<>>
    /\ wfile = <<>>
    /\ parse_failed = FALSE
    /\ failed_line = NoLine
    /\ ran = "none"
    /\ backlog = 0
    /\ stalled = FALSE
    /\ fs0 = InitFs
    /\ prev = NoPrev

\* ------------------------------------------------------------------------
\* The method handlers.  Each yields the filesystem and the stream after
\* it, and whether it raised.
\* ------------------------------------------------------------------------
Outcome(f, w, raised) == [fs |-> f, wfile |-> w, raised |-> raised]

\* check_file_exists without the is_file() test
check_file_exists_IgnoresKind(f, w, uri, send_error_flag) ==
    LET request_path == PathOf(uri)
        exists == f[request_path].kind # "absent"
    IN  [request_path |-> request_path,
         exists |-> exists,
         wfile |-> IF ~exists /\ send_error_flag
                   THEN send_error(w, 404, "not found")
                   ELSE w]

\* check_file_exists sending its 404 whatever send_error says
check_file_exists_AlwaysSends(f, w, uri, send_error_flag) ==
    LET request_path == PathOf(uri)
        exists == f[request_path].kind = "file"
    IN  [request_path |-> request_path,
         exists |-> exists,
         wfile |-> IF ~exists THEN send_error(w, 404, "not found") ELSE w]

\* request_path.exists() and request_path.is_file(), and the 404 it sends
check_file_exists(f, w, uri, send_error_flag) ==
    LET request_path == PathOf(uri)
        exists == f[request_path].kind = "file"
    IN  [request_path |-> request_path,
         exists |-> exists,
         wfile |-> IF ~exists /\ send_error_flag
                   THEN send_error(w, 404,
                            "Oh!! My god!! The server couldn't find the requested resource!")
                   ELSE w]

\* handle_delete without the unlink
handle_delete_KeepsFile(f, w, uri) ==
    LET chk == check_file_exists(f, w, uri, TRUE)
    IN  IF chk.exists
        THEN Outcome(f, send_http_response(chk.wfile, HTTP_VERSION, 204, <<>>, ""), FALSE)
        ELSE Outcome(f, chk.wfile, FALSE)

handle_delete(f, w, uri) ==
    LET chk == check_file_exists(f, w, uri, TRUE)
    IN  IF chk.exists
        THEN Outcome([f EXCEPT ![chk.request_path] = Absent],
                     send_http_response(chk.wfile, HTTP_VERSION, 204, <<>>, ""),
                     FALSE)
        ELSE Outcome(f, chk.wfile, FALSE)

\* param.startswith("Content-"), over the header names clients send
StartsWithContent(param) ==
    param \in {"Content-Length", "Content-Type", "Content-Language"}

\* the headers handle_put refuses
Unsupported(hp) ==
    {param \in DOMAIN hp : StartsWithContent(param) /\ param \notin SUPPORTED_CONTENT_HEADERS}

\* handle_put opening an existing file in append mode
handle_put_Appends(f, w, uri, body, hp) ==
    IF Unsupported(hp) # {}
    THEN Outcome(f, send_error(w, 501, "HTTP header is not supported"), FALSE)
    ELSE LET chk == check_file_exists(f, w, uri, FALSE)
         IN  IF f[chk.request_path].kind = "dir"
             THEN Outcome(f, chk.wfile, TRUE)
             ELSE Outcome([f EXCEPT ![chk.request_path] = File(@.data \o body)],
                          send_http_response(chk.wfile, HTTP_VERSION,
                                             IF chk.exists THEN 204 ELSE 201, <<>>, ""),
                          FALSE)

handle_put(f, w, uri, body, hp) ==
    IF Unsupported(hp) # {}
    THEN LET param == CHOOSE q \in Unsupported(hp) : TRUE
         IN  Outcome(f,
                     send_error(w, 501,
                         "'" \o param \o "' HTTP header is not supported by this server, and the HTTP/1.1 spec does not allow us to ignore it for PUT requests."),
                     FALSE)
    ELSE LET chk == check_file_exists(f, w, uri, FALSE)
         IN  IF f[chk.request_path].kind = "dir"
             THEN Outcome(f, chk.wfile, TRUE)      \* open() raises IsADirectoryError
             ELSE Outcome([f EXCEPT ![chk.request_path] = File(body)],
                          send_http_response(chk.wfile, HTTP_VERSION,
                                             IF chk.exists THEN 204 ELSE 201, <<>>, ""),
                          FALSE)

\* handle_post opening an existing file in "wb" mode
handle_post_Truncates(f, w, uri, body, content_type) ==
    IF content_type # "text/plain"
    THEN Outcome(f, send_error(w, 415, "The server does not support POST"), FALSE)
    ELSE LET chk == check_file_exists(f, w, uri, FALSE)
         IN  IF f[chk.request_path].kind = "dir"
             THEN Outcome(f, chk.wfile, TRUE)
             ELSE Outcome([f EXCEPT ![chk.request_path] = File(body)],
                          send_http_response(chk.wfile, HTTP_VERSION,
                                             IF chk.exists THEN 204 ELSE 201, <<>>, ""),
                          FALSE)

handle_post(f, w, uri, body, content_type) ==
    IF content_type # "text/plain"
    THEN Outcome(f,
                 send_error(w, 415,
                     "The server does not support POST for requests that aren't of type text/plain according to the homework rubric."),
                 FALSE)
    ELSE LET chk == check_file_exists(f, w, uri, FALSE)
         IN  IF chk.exists
             THEN Outcome([f EXCEPT ![chk.request_path] = File(@.data \o body)],
                          send_http_response(chk.wfile, HTTP_VERSION, 204, <<>>, ""),
                          FALSE)
             ELSE IF f[chk.request_path].kind = "dir"
             THEN Outcome(f, chk.wfile, TRUE)      \* open() raises IsADirectoryError
             ELSE Outcome([f EXCEPT ![chk.request_path] = File(body)],
                          send_http_response(chk.wfile, HTTP_VERSION, 201, <<>>, ""),
                          FALSE)

\* ContentTypeOf without the [1:] that drops the dot
ContentTypeOf_KeepsDot(extension) ==
    IF extension = ".txt" THEN "text/plain"
    ELSE IF extension \in {".png", ".gif", ".jpeg"} THEN "image/" \o extension
    ELSE "application/octet-stream"

\* the content type handle_get picks from the extension
ContentTypeOf(extension) ==
    IF extension = ".txt" THEN "text/plain"
    ELSE IF extension \in {".png", ".gif", ".jpeg"}
    THEN "image/" \o (CASE extension = ".png" -> "png"
                        [] extension = ".gif" -> "gif"
                        [] extension = ".jpeg" -> "jpeg")
    ELSE "application/octet-stream"

handle_get(f, w, uri) ==
    LET chk == check_file_exists(f, w, uri, TRUE)
    IN  IF chk.exists
        THEN Outcome(f,
                     send_http_response(chk.wfile, HTTP_VERSION, 200,
                                        f[chk.request_path].data,
                                        ContentTypeOf(Suffix(chk.request_path))),
                     FALSE)
        ELSE Outcome(f, chk.wfile, FALSE)

\* ------------------------------------------------------------------------
\* HTTPRequestHandler.handle
\* ------------------------------------------------------------------------
\* header_line.strip().decode("us-ascii").split(": ", 1)
Split(header_line) ==
    IF header_line.sep = ": " THEN <<header_line.name, header_line.value>>
    ELSE <<header_line.name \o header_line.sep \o header_line.value>>

\* int(header_params["Content-Length"]): the integers whose decimal form the text is
IntRange == (0 - 1)..MaxBody
IsInt(text) == \E n \in IntRange : ToString(n) = text
IntOf(text) == CHOOSE n \in IntRange : ToString(n) = text

\* self.rfile.read(content_length) on a stream that holds `sent` and then
\* ends: content_length bytes, fewer when the stream ends first, and the
\* whole stream for a negative content_length
Read(sent, content_length) ==
    IF content_length < 0 \/ content_length >= Len(sent) THEN sent
    ELSE SubSeq(sent, 1, content_length)

\* a working directory that holds one file, of any name and content
InitTyped ==
    /\ \E p \in Paths \ {PathOf(<<"/dir", "">>)}, data \in SeqsUpTo(Bytes, MaxDisk) :
          fs = [InitFs EXCEPT ![p] = File(data)]
    /\ pc = "idle"
    /\ bound = {}
    /\ request_method = ""
    /\ request_uri = <<"", "">>
    /\ header_params = EmptyDict
    /\ content_bytes = <<>>
    /\ wfile = <<>>
    /\ parse_failed = FALSE
    /\ failed_line = NoLine
    /\ ran = "none"
    /\ backlog = 0
    /\ stalled = FALSE
    /\ fs0 = fs
    /\ prev = NoPrev

\* the except clause of the first try block
BadRequest ==
    /\ wfile' = send_error(wfile, 400, "You sent a bad request to the server!")
    /\ parse_failed' = TRUE
    /\ pc' = "dispatch"

\* serve_forever of a TCPServer without a threading or forking mix-in: the
\* loop takes the next connection when handle has returned for the last one
CanAccept_Threaded == TRUE
CanAccept == pc = "idle"

\* the server constructs the handler of the connection it accepted
StartHandling ==
    /\ CanAccept
    /\ pc' = "request_line"
    /\ bound' = {}
    /\ request_method' = ""
    /\ request_uri' = <<"", "">>
    /\ header_params' = EmptyDict
    /\ content_bytes' = <<>>
    /\ wfile' = <<>>
    /\ parse_failed' = FALSE
    /\ failed_line' = NoLine
    /\ ran' = "none"
    /\ stalled' = FALSE
    /\ fs0' = fs
    /\ UNCHANGED <<fs, prev>>

\* a client connects and the server accepts it at once
Accept ==
    /\ StartHandling
    /\ UNCHANGED backlog

\* a client connects: the connection waits in the listening socket's queue
Connect ==
    /\ backlog < MaxBacklog
    /\ backlog' = backlog + 1
    /\ UNCHANGED <<fs, pc, bound, request_method, request_uri, header_params,
                   content_bytes, wfile, parse_failed, failed_line, ran, stalled, fs0,
                   prev>>

\* the server accepts the connection at the head of the queue
AcceptQueued ==
    /\ backlog > 0
    /\ StartHandling
    /\ backlog' = backlog - 1

\* rfile.readline() and rfile.read(n) wait for the client: there is no timeout
Blocking ==
    \/ pc \in {"request_line", "headers"}
    \/ /\ pc = "body"
       /\ "Content-Length" \in DOMAIN header_params
       /\ IsInt(header_params["Content-Length"])
       /\ IntOf(header_params["Content-Length"]) # 0

\* the client stops sending without closing the connection
ClientStalls ==
    /\ ~stalled
    /\ Blocking
    /\ stalled' = TRUE
    /\ UNCHANGED <<fs, pc, bound, request_method, request_uri, header_params,
                   content_bytes, wfile, parse_failed, failed_line, ran, backlog, fs0,
                   prev>>

\* lines 63-67: the request line
ReadRequestLineFrom(lines) ==
    /\ pc = "request_line"
    /\ ~stalled
    /\ \E request_line \in lines :
          IF Len(request_line) = 3
          THEN /\ request_method' = request_line[1]
               /\ request_uri' = request_line[2]
               /\ bound' = bound \cup {"request_method", "request_uri", "http_version",
                                       "header_params"}
               /\ pc' = "headers"
               /\ UNCHANGED <<wfile, parse_failed>>
          ELSE /\ BadRequest
               /\ UNCHANGED <<request_method, request_uri, bound>>
    /\ UNCHANGED <<fs, header_params, content_bytes, failed_line, ran, backlog, stalled,
                   fs0, prev>>

ReadRequestLine == ReadRequestLineFrom(RequestLines)

ReadPlainRequestLine == ReadRequestLineFrom(PlainRequestLines)

ReadTypedRequestLine == ReadRequestLineFrom(TypedRequestLines)

\* lines 68-72: one header line
ReadHeaderLineFrom(lines) ==
    /\ pc = "headers"
    /\ ~stalled
    /\ \E header_line \in lines :
          IF Len(Split(header_line)) = 2
          THEN /\ header_params' = DictSet(header_params, Split(header_line)[1],
                                           Split(header_line)[2])
               /\ UNCHANGED <<pc, wfile, parse_failed, failed_line>>
          ELSE /\ BadRequest
               /\ failed_line' = header_line
               /\ UNCHANGED header_params
    /\ UNCHANGED <<fs, bound, request_method, request_uri, content_bytes, ran, backlog,
                   stalled, fs0, prev>>

ReadHeaderLine == ReadHeaderLineFrom(HeaderLines)

ReadPlainHeaderLine == ReadHeaderLineFrom(PlainHeaderLines)

\* line 69, or the end of the stream: the header loop ends
EndOfHeaders ==
    /\ pc = "headers"
    /\ ~stalled
    /\ pc' = "body"
    /\ UNCHANGED <<fs, bound, request_method, request_uri, header_params, content_bytes,
                   wfile, parse_failed, failed_line, ran, backlog, stalled, fs0, prev>>

\* lines 75-77: the body
ReadBody ==
    /\ pc = "body"
    /\ ~stalled
    /\ IF "Content-Length" \in DOMAIN header_params
       THEN IF IsInt(header_params["Content-Length"])
            THEN \E sent \in SeqsUpTo(Bytes, MaxBody) :
                    /\ content_bytes' = Read(sent, IntOf(header_params["Content-Length"]))
                    /\ bound' = bound \cup {"content_bytes"}
                    /\ pc' = "dispatch"
                    /\ UNCHANGED <<wfile, parse_failed>>
            ELSE /\ BadRequest
                 /\ UNCHANGED <<content_bytes, bound>>
       ELSE /\ pc' = "dispatch"
            /\ UNCHANGED <<content_bytes, bound, wfile, parse_failed>>
    /\ UNCHANGED <<fs, request_method, request_uri, header_params, failed_line, ran, backlog,
                   stalled, fs0, prev>>

\* lines 85-92: the handler the method selects, or "none" when evaluating
\* the call raises first or no branch matches
HandlerOf(b, m, hp) ==
    IF "request_method" \notin b THEN "none"
    ELSE IF m = "GET" THEN "handle_get"
    ELSE IF m = "POST"
    THEN (IF "content_bytes" \in b /\ "Content-Type" \in DOMAIN hp
          THEN "handle_post" ELSE "none")
    ELSE IF m = "PUT" THEN (IF "content_bytes" \in b THEN "handle_put" ELSE "none")
    ELSE IF m = "DELETE" THEN "handle_delete"
    ELSE "none"

\* dispatch with a final else branch that answers 501
dispatch_AnswersUnknown(f, w, b, m, uri, hp, body) ==
    IF "request_method" \notin b THEN Outcome(f, w, TRUE)
    ELSE IF m = "GET" THEN handle_get(f, w, uri)
    ELSE IF m = "POST"
    THEN (IF "content_bytes" \notin b THEN Outcome(f, w, TRUE)
          ELSE IF "Content-Type" \notin DOMAIN hp THEN Outcome(f, w, TRUE)
          ELSE handle_post(f, w, uri, body, hp["Content-Type"]))
    ELSE IF m = "PUT"
    THEN (IF "content_bytes" \notin b THEN Outcome(f, w, TRUE)
          ELSE handle_put(f, w, uri, body, hp))
    ELSE IF m = "DELETE" THEN handle_delete(f, w, uri)
    ELSE Outcome(f, send_error(w, 501, "unknown method"), FALSE)

\* dispatch with content_bytes initialised to b"" before the first try block
dispatch_DefaultsBody(f, w, b, m, uri, hp, body) ==
    IF "request_method" \notin b THEN Outcome(f, w, TRUE)
    ELSE IF m = "GET" THEN handle_get(f, w, uri)
    ELSE IF m = "POST"
    THEN (IF "Content-Type" \notin DOMAIN hp THEN Outcome(f, w, TRUE)
          ELSE handle_post(f, w, uri, body, hp["Content-Type"]))
    ELSE IF m = "PUT" THEN handle_put(f, w, uri, body, hp)
    ELSE IF m = "DELETE" THEN handle_delete(f, w, uri)
    ELSE Outcome(f, w, FALSE)

\* lines 84-92: the body of the second try block
dispatch(f, w, b, m, uri, hp, body) ==
    IF "request_method" \notin b THEN Outcome(f, w, TRUE)          \* UnboundLocalError
    ELSE IF m = "GET" THEN handle_get(f, w, uri)
    ELSE IF m = "POST"
    THEN (IF "content_bytes" \notin b THEN Outcome(f, w, TRUE)     \* UnboundLocalError
          ELSE IF "Content-Type" \notin DOMAIN hp THEN Outcome(f, w, TRUE)   \* KeyError
          ELSE handle_post(f, w, uri, body, hp["Content-Type"]))
    ELSE IF m = "PUT"
    THEN (IF "content_bytes" \notin b THEN Outcome(f, w, TRUE)     \* UnboundLocalError
          ELSE handle_put(f, w, uri, body, hp))
    ELSE IF m = "DELETE" THEN handle_delete(f, w, uri)
    ELSE Outcome(f, w, FALSE)

\* lines 84-97: the second try block and its except clause
Dispatch ==
    /\ pc = "dispatch"
    /\ LET r == dispatch(fs, wfile, bound, request_method, request_uri, header_params,
                         content_bytes)
       IN  /\ DiskUse(r.fs) <= MaxDisk
           /\ fs' = r.fs
           /\ wfile' = IF r.raised
                       THEN send_error(r.wfile, 500,
                                "Oh!! My God!! The server broke and there are no monkeys to fix it!")
                       ELSE r.wfile
    /\ ran' = HandlerOf(bound, request_method, header_params)
    /\ pc' = "done"
    /\ UNCHANGED <<bound, request_method, request_uri, header_params, content_bytes,
                   parse_failed, failed_line, backlog, stalled, fs0, prev>>

\* handle has returned: the connection is closed
Finish ==
    /\ pc = "done"
    /\ pc' = "idle"
    /\ UNCHANGED <<fs, bound, request_method, request_uri, header_params, content_bytes,
                   wfile, parse_failed, failed_line, ran, backlog, stalled, fs0, prev>>

\* the same, remembering the request when it was answered by one 2xx response
FinishRecord ==
    /\ pc = "done"
    /\ pc' = "idle"
    /\ prev' = IF /\ ~parse_failed
                  /\ Len(wfile) = 1
                  /\ StatusOf(wfile[1]) \in {"200", "201", "204"}
               THEN [method |-> request_method, uri |-> request_uri,
                     body |-> content_bytes, code |-> StatusOf(wfile[1]),
                     before |-> fs0[PathOf(request_uri)]]
               ELSE NoPrev
    /\ UNCHANGED <<fs, bound, request_method, request_uri, header_params, content_bytes,
                   wfile, parse_failed, failed_line, ran, backlog, stalled, fs0>>

Next ==
    \/ Accept
    \/ ReadRequestLine
    \/ ReadHeaderLine
    \/ EndOfHeaders
    \/ ReadBody
    \/ Dispatch
    \/ Finish

\* any clients, one connection after the other
Spec == Init /\ [][Next]_vars

NextSeq ==
    \/ Accept
    \/ ReadPlainRequestLine
    \/ ReadPlainHeaderLine
    \/ EndOfHeaders
    \/ ReadBody
    \/ Dispatch
    \/ FinishRecord

\* well-behaved clients, with the request before the current one remembered
SeqSpec == Init /\ [][NextSeq]_vars

NextTyped ==
    \/ Accept
    \/ ReadTypedRequestLine
    \/ ReadPlainHeaderLine
    \/ EndOfHeaders
    \/ ReadBody
    \/ Dispatch
    \/ Finish

\* clients that fetch files of every extension from a directory with one file
TypedSpec == InitTyped /\ [][NextTyped]_vars

NextConn ==
    \/ Connect
    \/ AcceptQueued
    \/ ClientStalls
    \/ ReadPlainRequestLine
    \/ ReadPlainHeaderLine
    \/ EndOfHeaders
    \/ ReadBody
    \/ Dispatch
    \/ Finish

\* clients that connect while the server is busy, and clients that stall
ConnSpec == Init /\ [][NextConn]_vars

\* ------------------------------------------------------------------------
\* Properties
\* ------------------------------------------------------------------------
Done == pc = "done"

Target == PathOf(request_uri)

ErrorCodes == {"400", "404", "415", "500", "501"}

\* the connection carries exactly one response, with this status
Answered(code) == Len(wfile) = 1 /\ StatusOf(wfile[1]) = code

\* C1: when the parsing of the request fails, no method handler runs and
\* the filesystem is left as it was.
C1_NoDispatchAfterParseFailure ==
    (Done /\ parse_failed) => (ran = "none" /\ fs = fs0)

\* C2: a request that ends in an error outcome has exactly one response on
\* its connection when handle returns.
C2_OneResponsePerError ==
    (Done /\ \E i \in 1..Len(wfile) : StatusOf(wfile[i]) \in ErrorCodes)
        => Len(wfile) = 1

\* C3: in every response that carries a body, the Content-Length header is
\* the decimal count of the body bytes after the blank line.
C3_ContentLengthIsBodyLength ==
    \A i \in 1..Len(wfile) :
        BodyOf(wfile[i]) # <<>>
            => /\ HasHeader(wfile[i], "Content-Length")
               /\ \E n \in 0..Len(wfile[i]) :
                     /\ HeaderOf(wfile[i], "Content-Length") = ToString(n)
                     /\ n = Len(BodyOf(wfile[i]))

C3_Witness ==
    /\ Done
    /\ Answered("200")
    /\ Len(BodyOf(wfile[1])) = MaxDisk

\* C4: a response has a Content-Type header, and a Content-Length header,
\* exactly when it has a body.
C4_HeadersIffBody ==
    \A i \in 1..Len(wfile) :
        /\ HasHeader(wfile[i], "Content-Type") <=> BodyOf(wfile[i]) # <<>>
        /\ HasHeader(wfile[i], "Content-Length") <=> BodyOf(wfile[i]) # <<>>

C4_Witness ==
    /\ Done
    /\ ~parse_failed
    /\ request_method = "DELETE"
    /\ Answered("204")
    /\ HeaderLinesOf(wfile[1]) = {}
    /\ BodyOf(wfile[1]) = <<>>

\* C5: GET on an existing foo.txt with content B, of any length, is
\* answered 200 with content type text/plain and body B, and the file is
\* left as it was.
C5_GetTxtReturnsContent ==
    (/\ Done
     /\ ~parse_failed
     /\ request_method = "GET"
     /\ request_uri = <<"/foo", ".txt">>
     /\ fs0[Target].kind = "file")
        => /\ Answered("200")
           /\ HasHeader(wfile[1], "Content-Type")
           /\ HeaderOf(wfile[1], "Content-Type") = "text/plain"
           /\ BodyOf(wfile[1]) = fs0[Target].data
           /\ fs = fs0

\* a PUT that reached handle_put with supported headers only
PutDone ==
    /\ Done
    /\ ~parse_failed
    /\ request_method = "PUT"
    /\ "content_bytes" \in bound
    /\ Unsupported(header_params) = {}

\* C6: PUT with body B on an absent target is answered 201 and on an
\* existing file 204; the file then holds exactly B, and a GET of the same
\* target that follows is answered 200 with body exactly B.
C6_PutThenGet ==
    /\ (PutDone /\ fs0[Target].kind = "absent")
          => (Answered("201") /\ BodyOf(wfile[1]) = <<>> /\ fs[Target] = File(content_bytes))
    /\ (PutDone /\ fs0[Target].kind = "file")
          => (Answered("204") /\ BodyOf(wfile[1]) = <<>> /\ fs[Target] = File(content_bytes))
    /\ (/\ Done
        /\ ~parse_failed
        /\ request_method = "GET"
        /\ prev.method = "PUT"
        /\ prev.uri = request_uri)
          => (Answered("200") /\ BodyOf(wfile[1]) = prev.body /\ fs = fs0)

C6_Witness ==
    /\ Done
    /\ request_method = "GET"
    /\ prev.method = "PUT"
    /\ prev.uri = request_uri
    /\ prev.code = "204"
    /\ prev.before.data # <<>>
    /\ prev.body # <<>>
    /\ prev.body # prev.before.data
    /\ Answered("200")

\* a POST that reached handle_post with Content-Type text/plain
PostDone ==
    /\ Done
    /\ ~parse_failed
    /\ request_method = "POST"
    /\ "content_bytes" \in bound
    /\ "Content-Type" \in DOMAIN header_params
    /\ header_params["Content-Type"] = "text/plain"

\* C7: a text/plain POST with body D appends D to an existing file and is
\* answered 204 without a body; on an absent target it creates the file
\* with content D and is answered 201; after two such POSTs D1, D2 in a row
\* the file holds the original content, then D1, then D2.
C7_PostAppends ==
    /\ (PostDone /\ fs0[Target].kind = "file")
          => /\ Answered("204")
             /\ BodyOf(wfile[1]) = <<>>
             /\ fs[Target] = File(fs0[Target].data \o content_bytes)
    /\ (PostDone /\ fs0[Target].kind = "absent")
          => /\ Answered("201")
             /\ BodyOf(wfile[1]) = <<>>
             /\ fs[Target] = File(content_bytes)
    /\ (PostDone /\ prev.method = "POST" /\ prev.uri = request_uri)
          => fs[Target] = File(prev.before.data \o prev.body \o content_bytes)

C7_Witness ==
    /\ PostDone
    /\ prev.method = "POST"
    /\ prev.uri = request_uri
    /\ prev.before.kind = "file"
    /\ prev.body # <<>>
    /\ content_bytes # <<>>
    /\ content_bytes # prev.body
    /\ Answered("204")

DeleteDone ==
    /\ Done
    /\ ~parse_failed
    /\ request_method = "DELETE"

\* C8: DELETE on an existing file removes it and is answered 204 without a
\* body; a second DELETE on the same path right after it is answered 404;
\* a DELETE on a path that is no file changes nothing in the filesystem.
C8_DeleteThenDelete ==
    /\ (DeleteDone /\ fs0[Target].kind = "file")
          => /\ Answered("204")
             /\ BodyOf(wfile[1]) = <<>>
             /\ fs = [fs0 EXCEPT ![Target] = Absent]
    /\ (DeleteDone /\ fs0[Target].kind # "file")
          => (Answered("404") /\ fs = fs0)
    /\ (DeleteDone /\ prev.method = "DELETE" /\ prev.uri = request_uri)
          => (Answered("404") /\ fs = fs0)

C8_Witness ==
    /\ DeleteDone
    /\ prev.method = "DELETE"
    /\ prev.uri = request_uri
    /\ prev.code = "204"
    /\ prev.before.kind = "file"
    /\ Answered("404")

\* C9: a PUT request with a Content-* header other than Content-Type and
\* Content-Length is answered 501 and changes nothing in the filesystem.
C9_PutUnsupportedHeader ==
    (/\ Done
     /\ ~parse_failed
     /\ request_method = "PUT"
     /\ Unsupported(header_params) # {})
        => (Answered("501") /\ fs = fs0)

\* C10: a POST request whose Content-Type is not text/plain is answered 415
\* and changes nothing in the filesystem, whatever its target.
C10_PostUnsupportedMediaType ==
    (/\ Done
     /\ ~parse_failed
     /\ request_method = "POST"
     /\ "Content-Type" \in DOMAIN header_params
     /\ header_params["Content-Type"] # "text/plain")
        => (Answered("415") /\ fs = fs0)

\* C11: GET on a path that is no regular file is answered by one 404 and
\* leaves the filesystem as it was; no 200 is ever sent for such a path.
C11_GetMissingIs404 ==
    /\ (/\ Done
        /\ ~parse_failed
        /\ request_method = "GET"
        /\ fs0[Target].kind # "file")
          => (Answered("404") /\ fs = fs0)
    /\ (\E i \in 1..Len(wfile) : StatusOf(wfile[i]) = "200")
          => ("request_uri" \in bound /\ fs0[Target].kind = "file")

C11_Witness ==
    /\ Done
    /\ ~parse_failed
    /\ request_method = "GET"
    /\ fs0[Target].kind = "dir"
    /\ Answered("404")
    /\ BodyOf(wfile[1]) # <<>>

\* C13: a well-formed request whose method is none of GET, POST, PUT and
\* DELETE gets no response at all and changes nothing in the filesystem.
C13_UnknownMethodSilent ==
    (/\ Done
     /\ ~parse_failed
     /\ request_method \notin {"GET", "POST", "PUT", "DELETE"})
        => (wfile = <<>> /\ fs = fs0 /\ ran = "none")

C13_Witness ==
    /\ Done
    /\ ~parse_failed
    /\ request_method = "HEAD"
    /\ "content_bytes" \in bound
    /\ fs0[Target].kind = "file"
    /\ wfile = <<>>

\* C14: a handler dispatched with a body gets exactly the declared
\* Content-Length n >= 0 bytes; a stream that ends before that many bytes
\* is malformed and not dispatched.
C14_BodyHasDeclaredLength ==
    (/\ Done
     /\ ran \in {"handle_put", "handle_post"}
     /\ "Content-Length" \in DOMAIN header_params
     /\ IsInt(header_params["Content-Length"])
     /\ IntOf(header_params["Content-Length"]) >= 0)
        => Len(content_bytes) = IntOf(header_params["Content-Length"])

\* C15: a Content-Length that is no non-negative integer, -1 included,
\* makes the request malformed; no body is read or dispatched for it.
C15_ContentLengthNonNegative ==
    (/\ Done
     /\ "Content-Length" \in DOMAIN header_params
     /\ ~(IsInt(header_params["Content-Length"])
             /\ IntOf(header_params["Content-Length"]) >= 0))
        => /\ parse_failed
           /\ "content_bytes" \notin bound
           /\ ran \notin {"handle_put", "handle_post"}

\* C16: a POST request without a Content-Type header is answered 415 and
\* changes nothing in the filesystem.
C16_PostWithoutContentType ==
    (/\ Done
     /\ ~parse_failed
     /\ request_method = "POST"
     /\ "Content-Type" \notin DOMAIN header_params)
        => (Answered("415") /\ fs = fs0)

\* C18: a well-formed GET, POST, PUT or DELETE request gets exactly one
\* response, with a status among 200, 201, 204, 404, 415, 500 and 501, and
\* every status written is one STATUS_REASONS knows.
C18_OneKnownStatus ==
    /\ (/\ Done
        /\ ~parse_failed
        /\ request_method \in {"GET", "POST", "PUT", "DELETE"})
          => /\ Len(wfile) = 1
             /\ StatusOf(wfile[1]) \in {"200", "201", "204", "404", "415", "500", "501"}
    /\ \A i \in 1..Len(wfile) :
          \E c \in DOMAIN STATUS_REASONS :
             /\ StatusOf(wfile[i]) = ToString(c)
             /\ wfile[i][1][3] = STATUS_REASONS[c]

C18_Witness ==
    /\ Done
    /\ ~parse_failed
    /\ request_method = "PUT"
    /\ fs0[Target].kind = "dir"
    /\ "content_bytes" \in bound
    /\ Answered("500")

C17_SpaceAfterColonOptional ==
    (parse_failed /\ failed_line # NoLine) => failed_line.sep = ""

\* C20: connections are handled one at a time.  The handling of a connection
\* begins only when handle has returned for the one before it; the filesystem
\* changes only in the dispatch of the connection being handled and nothing
\* changed it since that connection was accepted, so the 201 or 204 of a PUT
\* or POST tells whether the file existed when it was written; and while a
\* client stalls, no response is written and no waiting connection is accepted.
C20_OneConnectionAtATime ==
    [][/\ backlog' < backlog => pc = "idle"
       /\ fs' # fs => (pc = "dispatch" /\ fs = fs0)
       /\ (/\ pc = "dispatch"
           /\ pc' = "done"
           /\ ran' \in {"handle_put", "handle_post"}
           /\ Len(wfile') = 1)
              => /\ StatusOf(wfile'[1]) = "201" => fs[Target] = Absent
                 /\ StatusOf(wfile'[1]) = "204" => fs[Target].kind = "file"
       /\ stalled => /\ stalled'
                     /\ pc' = pc
                     /\ wfile' = wfile
                     /\ backlog' >= backlog]_vars

\* a second client stalls in its body while a third waits to be accepted
C20_Witness ==
    /\ stalled
    /\ pc = "body"
    /\ backlog > 0
    /\ fs # InitFs

====
